---- MODULE Spec2Model ----
(***************************************************************************)
(* Model of the collection loop of meetup_scraper.py:                      *)
(* MeetupScraper.check_robots_txt, MeetupScraper.extract_event_info,       *)
(* MeetupScraper.scrape_events and the caller main.  The browser (driver)  *)
(* and the robots.txt fetch are the environment: every call into them      *)
(* either returns or raises, chosen nondeterministically.                  *)
(***************************************************************************)
EXTENDS Integers, Sequences, FiniteSets, TLC

\* ---------------------------------------------------------------- bounds
\* Longest snapshot find_elements returns in the model.
MaxSnap == 2
\* Largest --max-pages value drawn for a call.
MaxPages == 2
\* Number of scrape_events calls made on one MeetupScraper in SpecCalls.
MaxCalls == 2
\* Longest attendee text given to extract_event_info in SpecExtract.
MaxText == 3
\* Longest datetime attribute (in tokens) given to it in SpecExtract.
MaxDate == 3

\* ------------------------------------------------------- program constants
\* max_retries of the safe_request decorator.
max_retries == 3

\* Outcomes of a Selenium lookup that does not return a value.
NoSuchElement == "<NoSuchElementException>"
Stale == "<StaleElementReferenceException>"

\* Defaults that extract_event_info substitutes.
GroupDefault == "Group name not available"
RatingDefault == "No rating"
ImageDefault == "No image available"

\* ------------------------------------------------------------ pure helpers
RECURSIVE IndexOf(_, _, _)
\* Position of the first occurrence of tok in s at or after i, 0 if none.
IndexOf(s, tok, i) ==
    IF i > Len(s) THEN 0
    ELSE IF s[i] = tok THEN i
    ELSE IndexOf(s, tok, i + 1)

\* str.split('[')[0]: the text before the first '['.
SplitBracket(s) ==
    LET k == IndexOf(s, "[", 1)
    IN IF k = 0 THEN s ELSE SubSeq(s, 1, k - 1)

\* str.replace('Z', '+00:00'): every Z becomes the UTC offset.
ReplaceZ(s) == [i \in 1..Len(s) |-> IF s[i] = "Z" THEN "+00:00" ELSE s[i]]

\* datetime.fromisoformat accepts the text (no ValueError).  "iso" stands for
\* a date-time written YYYY-MM-DDTHH:MM:SS and "iso_space" for the same with
\* a space for the T; either may be followed by one UTC offset.
IsIsoFormat(s) ==
    /\ Len(s) \in {1, 2}
    /\ s[1] \in {"iso", "iso_space"}
    /\ Len(s) = 2 => s[2] = "+00:00"

\* date_obj.isoformat(): the parsed value written with the T separator.
Isoformat(s) == [i \in 1..Len(s) |-> IF s[i] = "iso_space" THEN "iso" ELSE s[i]]

\* The value of the 'date' key: lines 160-168.  The assignment of line 164
\* happens before fromisoformat can raise, so a text that does not parse is
\* kept in its stripped and replaced form.
NormalizeDate(s) ==
    LET date == ReplaceZ(SplitBracket(s))
    IN IF IsIsoFormat(date) THEN Isoformat(date) ELSE date

IsDigit(c) == c \in {"0", "1", "2", "3", "4", "5", "6", "7", "8", "9"}

DigitVal(c) ==
    CASE c = "0" -> 0 [] c = "1" -> 1 [] c = "2" -> 2 [] c = "3" -> 3
      [] c = "4" -> 4 [] c = "5" -> 5 [] c = "6" -> 6 [] c = "7" -> 7
      [] c = "8" -> 8 [] c = "9" -> 9

RECURSIVE IntOf(_)
\* int() of a non-empty string of digits.
IntOf(ds) ==
    IF Len(ds) = 0 THEN 0
    ELSE 10 * IntOf(SubSeq(ds, 1, Len(ds) - 1)) + DigitVal(ds[Len(ds)])

\* int(''.join(filter(str.isdigit, text))), ValueError -> 0: lines 192-194.
ParseAttendees(text) ==
    LET ds == SelectSeq(text, IsDigit)
    IN IF Len(ds) = 0 THEN 0 ELSE IntOf(ds)

RECURSIVE Strip(_)
\* str.strip() over a token sequence (" " is whitespace).
Strip(s) ==
    IF Len(s) = 0 THEN s
    ELSE IF s[1] = " " THEN Strip(Tail(s))
    ELSE IF s[Len(s)] = " " THEN Strip(SubSeq(s, 1, Len(s) - 1))
    ELSE s

\* group_text.replace('by ', '', 1).strip(): line 176.
GroupName(text) ==
    LET k == IndexOf(text, "by ", 1)
    IN Strip(IF k = 0 THEN text
             ELSE SubSeq(text, 1, k - 1) \o SubSeq(text, k + 1, Len(text)))

\* ------------------------------------------------------------- DOM elements
\* An element handle: what each lookup on it yields.  A field holds the
\* value the lookup returns, or NoSuchElement / Stale when it raises.
\* id "" is a data-event-id attribute that is present but empty.
Good(id) ==
    [id |-> id, stale |-> FALSE,
     h3 |-> "title", a |-> "href",
     time |-> "ok", has_datetime |-> TRUE,
     datetime |-> <<"iso", "Z", "[", "tz", "]">>, time_text |-> "Mon",
     group |-> "ok", group_text |-> <<"by ", "G">>,
     rating |-> "ok", rating_text |-> "4.5",
     attendees |-> "ok", attendees_text |-> <<"4", "6", " ", "a">>,
     img |-> "ok", src |-> "http"]

Elements ==
    { Good("e1"), Good("e2"), Good(""),
      [Good("e1") EXCEPT !.h3 = NoSuchElement],
      [Good("e2") EXCEPT !.a = NoSuchElement],
      [Good("e2") EXCEPT !.stale = TRUE] }

RECURSIVE SeqsUpTo(_, _)
SeqsUpTo(S, n) ==
    IF n = 0 THEN {<<>>}
    ELSE LET shorter == SeqsUpTo(S, n - 1)
             longest == {t \in shorter : Len(t) = n - 1}
         IN shorter \cup {Append(s, x) : s \in longest, x \in S}

\* What find_elements can return: any sequence of handles.
Snapshots == SeqsUpTo(Elements, MaxSnap)

\* ------------------------------------------------------ extract_event_info
\* An optional value: <<>> is None, <<v>> is v.
None == <<>>
Some(v) == <<v>>

\* Lines 147-222.  Any exception that is not caught by an inner handler
\* reaches the handler of line 220 and the method returns None.
extract_event_info(el) ==
    LET group_name ==
            IF el.group = NoSuchElement THEN <<GroupDefault>>
            ELSE GroupName(el.group_text)
        rating ==
            IF el.rating = NoSuchElement THEN RatingDefault ELSE el.rating_text
        attendees ==
            IF el.attendees = NoSuchElement THEN 0
            ELSE ParseAttendees(el.attendees_text)
        image_url ==
            IF el.img # "ok" THEN ImageDefault
            ELSE IF el.src # "http" THEN ImageDefault
            ELSE el.src
        date == NormalizeDate(el.datetime)
    IN  IF \/ el.stale
           \/ el.h3 \in {NoSuchElement, Stale}
           \/ el.a \in {NoSuchElement, Stale}
           \/ el.time \in {NoSuchElement, Stale}
           \/ ~el.has_datetime
           \/ el.group = Stale
           \/ el.rating = Stale
           \/ el.attendees = Stale
        THEN None
        ELSE Some([event_id |-> el.id,
                   title |-> el.h3,
                   url |-> el.a,
                   date |-> date,
                   date_display |-> el.time_text,
                   group_name |-> group_name,
                   rating |-> rating,
                   attendees |-> attendees,
                   image_url |-> image_url])

\* ---------------------------------------------------------- check_robots_txt
\* Outcomes of rp.read(), rp.can_fetch() and of the crawl-delay branch
\* (rp.crawl_delay() and the sleep it asks for): each returns or raises.
RobotsOutcomes ==
    [read : {"ok", "raise"}, can_fetch : {"True", "False", "raise"},
     crawl_delay : {"ok", "raise"}]

\* A gate that fails open: a fetch that raises counts as permission.
check_robots_txt_fail_open(r) ==
    IF r.read = "raise" THEN "True"
    ELSE IF r.can_fetch = "raise" THEN "True"
    ELSE IF r.can_fetch = "False" THEN "False"
    ELSE "True"

\* Lines 40-66: "True", "False", or "raise" if an exception escaped.
check_robots_txt(r) ==
    IF r.read = "raise" THEN "False"
    ELSE IF r.can_fetch = "raise" THEN "False"
    ELSE IF r.can_fetch = "False" THEN "False"
    ELSE IF r.crawl_delay = "raise" THEN "False"
    ELSE "True"

\* ------------------------------------------------------------------- state
VARIABLES
    pc,               \* position in scrape_events / main
    max_pages,        \* argument max_pages
    exhaustive,       \* argument exhaustive
    robots,           \* what the robots.txt fetch did in this call
    events,           \* local list events
    processed_ids,    \* local set processed_ids
    page,             \* local counter page
    event_elements,   \* snapshot of the current round
    idx,              \* number of elements of the snapshot already processed
    found_new_events, \* flag of the current round
    status,           \* which exit ended the loop
    error_at,         \* the driver call whose exception ended the run
    result,           \* the list scrape_events returned
    raised,           \* an exception escaped scrape_events
    get_calls,        \* driver.get invocations
    scroll_calls,     \* execute_script(scrollTo) invocations
    find_calls,       \* find_elements invocations
    height_changed,   \* the latest scroll changed document.body.scrollHeight
    same_snapshot,    \* the snapshot equals the one of the round before
    round_base,       \* len(events) when the current round started
    saved,            \* lists handed to save_events
    history,          \* outcomes of earlier scrape_events calls
    element,          \* handle given to a direct extract_event_info call
    event_info,       \* what that call returned
    plan,             \* what the function wrapped by safe_request does, per call
    attempt,          \* loop variable attempt of the wrapper
    func_calls,       \* invocations of the wrapped function
    slept,            \* the time.sleep arguments of the wrapper, in order
    outcome           \* how the wrapper ended: returned value or raised error

vars == <<pc, max_pages, exhaustive, robots, events, processed_ids, page,
          event_elements, idx, found_new_events, status, error_at, result,
          raised, get_calls, scroll_calls, find_calls, height_changed,
          same_snapshot, round_base, saved, history, element, event_info,
          plan, attempt, func_calls, slept, outcome>>

\* The variables of a scrape_events run other than pc.
loopVars == <<max_pages, exhaustive, robots, events, processed_ids, page,
              event_elements, idx, found_new_events, status, error_at,
              result, raised, get_calls, scroll_calls, find_calls,
              height_changed, same_snapshot, round_base, saved, history>>

\* The variables of a direct extract_event_info call.
extractVars == <<element, event_info>>

\* The variables of a call through safe_request.
retryVars == <<plan, attempt, func_calls, slept, outcome>>

NoRobots == [read |-> "ok", can_fetch |-> "True", crawl_delay |-> "ok"]

Statuses ==
    {"RUNNING", "DENIED", "STOPPED_BUDGET", "STOPPED_NO_NEW_CONTENT",
     "STOPPED_HEIGHT_UNCHANGED", "STOPPED_ERROR"}

\* Lines 224-227 and a browser that has loaded nothing yet.
Init ==
    /\ pc = "check_robots"
    /\ max_pages \in 0..MaxPages
    /\ exhaustive \in BOOLEAN
    /\ robots = NoRobots
    /\ events = <<>>
    /\ processed_ids = {}
    /\ page = 0
    /\ event_elements = <<>>
    /\ idx = 0
    /\ found_new_events = FALSE
    /\ status = "RUNNING"
    /\ error_at = "none"
    /\ result = <<>>
    /\ raised = FALSE
    /\ get_calls = 0
    /\ scroll_calls = 0
    /\ find_calls = 0
    /\ height_changed = FALSE
    /\ same_snapshot = FALSE
    /\ round_base = 0
    /\ saved = <<>>
    /\ history = <<>>
    /\ element = Good("e1")
    /\ event_info = None
    /\ plan = <<>>
    /\ attempt = 0
    /\ func_calls = 0
    /\ slept = <<>>
    /\ outcome = <<>>

\* ----------------------------------------------------------------- guards
\* The gate's answer is ignored.
GateOpenAlways(g) == TRUE

\* Line 230: `if not self.check_robots_txt(url)` lets the call go on.
GateOpen(g) == g = "True"

\* Off by one: `page > max_pages`.
BudgetReachedLate(ex, pg, mp) == ~ex /\ pg > mp

\* Line 244: `if not exhaustive and page >= max_pages: break`.
BudgetReached(ex, pg, mp) == ~ex /\ pg >= mp

\* The ledger is not consulted.
IsNewAlways(id, ids) == TRUE

\* Line 268: `if event_id not in processed_ids`.
IsNew(id, ids) == id \notin ids

\* Line 270: `if event_info` (a dict with nine keys is truthy).
Truthy(info) == info # None

\* The loop does not stop on a round without new records.
NoNewContentIgnored(found) == FALSE

\* Line 282: `if not found_new_events: break`.
NoNewContent(found) == ~found

\* The list gathered so far is dropped when the run ended on an error.
ReturnNothing(ev) == <<>>

\* Line 299: `return events`.
ReturnValue(ev) == ev

\* ---------------------------------------------------------------- actions
\* Lines 229-232: the politeness gate, before the try block.
CheckRobots ==
    /\ pc = "check_robots"
    /\ \E r \in RobotsOutcomes :
         LET g == check_robots_txt(r)
         IN /\ robots' = r
            /\ IF g = "raise"
               THEN /\ raised' = TRUE
                    /\ pc' = "done"
                    /\ UNCHANGED <<status, result>>
               ELSE IF GateOpen(g)
               THEN /\ pc' = "get"
                    /\ UNCHANGED <<status, result, raised>>
               ELSE /\ status' = "DENIED"
                    /\ result' = ReturnValue(events)
                    /\ pc' = "done"
                    /\ UNCHANGED raised
    /\ UNCHANGED <<max_pages, exhaustive, events, processed_ids, page,
                   event_elements, idx, found_new_events, error_at, get_calls,
                   scroll_calls, find_calls, height_changed, same_snapshot,
                   round_base, saved, history>>
    /\ UNCHANGED <<extractVars, retryVars>>

\* Lines 236-241: driver.get returned.
GetOk ==
    /\ pc = "get"
    /\ get_calls' = get_calls + 1
    /\ page' = 0
    /\ pc' = "while"
    /\ UNCHANGED <<max_pages, exhaustive, robots, events, processed_ids,
                   event_elements, idx, found_new_events, status, error_at,
                   result, raised, scroll_calls, find_calls, height_changed,
                   same_snapshot, round_base, saved, history>>
    /\ UNCHANGED <<extractVars, retryVars>>

\* Lines 236, 294-295: driver.get raised; the outer handler logs it.
GetRaises ==
    /\ pc = "get"
    /\ get_calls' = get_calls + 1
    /\ status' = "STOPPED_ERROR"
    /\ error_at' = "get"
    /\ pc' = "return"
    /\ UNCHANGED <<max_pages, exhaustive, robots, events, processed_ids, page,
                   event_elements, idx, found_new_events, result, raised,
                   scroll_calls, find_calls, height_changed, same_snapshot,
                   round_base, saved, history>>
    /\ UNCHANGED <<extractVars, retryVars>>

\* Lines 243-250: the head of the loop.
While ==
    /\ pc = "while"
    /\ IF BudgetReached(exhaustive, page, max_pages)
       THEN /\ status' = "STOPPED_BUDGET"
            /\ pc' = "return"
            /\ UNCHANGED round_base
       ELSE /\ pc' = "scroll"
            /\ round_base' = Len(events)
            /\ UNCHANGED status
    /\ UNCHANGED <<max_pages, exhaustive, robots, events, processed_ids, page,
                   event_elements, idx, found_new_events, error_at, result,
                   raised, get_calls, scroll_calls, find_calls,
                   height_changed, same_snapshot, saved, history>>
    /\ UNCHANGED <<extractVars, retryVars>>

\* Lines 254-255: the scroll returned; the page has grown or it has not.
ScrollOk ==
    /\ pc = "scroll"
    /\ scroll_calls' = scroll_calls + 1
    /\ height_changed' \in BOOLEAN
    /\ pc' = "find_elements"
    /\ UNCHANGED <<max_pages, exhaustive, robots, events, processed_ids, page,
                   event_elements, idx, found_new_events, status, error_at,
                   result, raised, get_calls, find_calls, same_snapshot,
                   round_base, saved, history>>
    /\ UNCHANGED <<extractVars, retryVars>>

\* Lines 254, 290-292: the scroll raised; the round's handler breaks.
ScrollRaises ==
    /\ pc = "scroll"
    /\ scroll_calls' = scroll_calls + 1
    /\ status' = "STOPPED_ERROR"
    /\ error_at' = "scroll"
    /\ pc' = "return"
    /\ UNCHANGED <<max_pages, exhaustive, robots, events, processed_ids, page,
                   event_elements, idx, found_new_events, result, raised,
                   get_calls, find_calls, height_changed, same_snapshot,
                   round_base, saved, history>>
    /\ UNCHANGED <<extractVars, retryVars>>

\* Lines 258-262: find_elements returned a snapshot.
FindOk ==
    /\ pc = "find_elements"
    /\ find_calls' = find_calls + 1
    /\ \E s \in Snapshots :
         /\ event_elements' = s
         /\ same_snapshot' = (find_calls >= 1 /\ s = event_elements)
    /\ idx' = 0
    /\ found_new_events' = FALSE
    /\ pc' = "for"
    /\ UNCHANGED <<max_pages, exhaustive, robots, events, processed_ids, page,
                   status, error_at, result, raised, get_calls, scroll_calls,
                   height_changed, round_base, saved, history>>
    /\ UNCHANGED <<extractVars, retryVars>>

\* Lines 258, 290-292: find_elements raised.
FindRaises ==
    /\ pc = "find_elements"
    /\ find_calls' = find_calls + 1
    /\ status' = "STOPPED_ERROR"
    /\ error_at' = "find_elements"
    /\ pc' = "return"
    /\ UNCHANGED <<max_pages, exhaustive, robots, events, processed_ids, page,
                   event_elements, idx, found_new_events, result, raised,
                   get_calls, scroll_calls, height_changed, same_snapshot,
                   round_base, saved, history>>
    /\ UNCHANGED <<extractVars, retryVars>>

\* One iteration of the for loop that puts the new record in front.
ForElementPrepend ==
    /\ pc = "for"
    /\ idx < Len(event_elements)
    /\ LET el == event_elements[idx + 1]
           info == extract_event_info(el)
       IN IF ~el.stale /\ IsNew(el.id, processed_ids) /\ Truthy(info)
          THEN /\ events' = <<info[1]>> \o events
               /\ processed_ids' = processed_ids \cup {el.id}
               /\ found_new_events' = TRUE
          ELSE UNCHANGED <<events, processed_ids, found_new_events>>
    /\ idx' = idx + 1
    /\ UNCHANGED <<pc, max_pages, exhaustive, robots, page, event_elements,
                   status, error_at, result, raised, get_calls, scroll_calls,
                   find_calls, height_changed, same_snapshot, round_base,
                   saved, history>>
    /\ UNCHANGED <<extractVars, retryVars>>

\* One iteration of the for loop that walks the snapshot from its end.
ForElementReversed ==
    /\ pc = "for"
    /\ idx < Len(event_elements)
    /\ LET el == event_elements[Len(event_elements) - idx]
           info == extract_event_info(el)
       IN IF ~el.stale /\ IsNew(el.id, processed_ids) /\ Truthy(info)
          THEN /\ events' = Append(events, info[1])
               /\ processed_ids' = processed_ids \cup {el.id}
               /\ found_new_events' = TRUE
          ELSE UNCHANGED <<events, processed_ids, found_new_events>>
    /\ idx' = idx + 1
    /\ UNCHANGED <<pc, max_pages, exhaustive, robots, page, event_elements,
                   status, error_at, result, raised, get_calls, scroll_calls,
                   find_calls, height_changed, same_snapshot, round_base,
                   saved, history>>
    /\ UNCHANGED <<extractVars, retryVars>>

\* One iteration of the for loop in which an element that cannot be read or
\* extracted ends the round as an error.
ForElementAbort ==
    /\ pc = "for"
    /\ idx < Len(event_elements)
    /\ LET el == event_elements[idx + 1]
           info == extract_event_info(el)
       IN IF el.stale \/ (IsNew(el.id, processed_ids) /\ ~Truthy(info))
          THEN /\ status' = "STOPPED_ERROR"
               /\ pc' = "return"
               /\ UNCHANGED <<events, processed_ids, found_new_events, idx>>
          ELSE /\ IF IsNew(el.id, processed_ids)
                  THEN /\ events' = Append(events, info[1])
                       /\ processed_ids' = processed_ids \cup {el.id}
                       /\ found_new_events' = TRUE
                  ELSE UNCHANGED <<events, processed_ids, found_new_events>>
               /\ idx' = idx + 1
               /\ UNCHANGED <<pc, status>>
    /\ UNCHANGED <<max_pages, exhaustive, robots, page, event_elements,
                   error_at, result, raised, get_calls, scroll_calls,
                   find_calls, height_changed, same_snapshot, round_base,
                   saved, history>>
    /\ UNCHANGED <<extractVars, retryVars>>

\* Lines 265-277: one iteration of the for loop.
ForElement ==
    /\ pc = "for"
    /\ idx < Len(event_elements)
    /\ LET el == event_elements[idx + 1]
           info == extract_event_info(el)
       IN IF ~el.stale /\ IsNew(el.id, processed_ids) /\ Truthy(info)
          THEN /\ events' = Append(events, info[1])
               /\ processed_ids' = processed_ids \cup {el.id}
               /\ found_new_events' = TRUE
          ELSE UNCHANGED <<events, processed_ids, found_new_events>>
    /\ idx' = idx + 1
    /\ UNCHANGED <<pc, max_pages, exhaustive, robots, page, event_elements,
                   status, error_at, result, raised, get_calls, scroll_calls,
                   find_calls, height_changed, same_snapshot, round_base,
                   saved, history>>
    /\ UNCHANGED <<extractVars, retryVars>>

\* After the for loop, with a stop on an unchanged scroll height added.
AfterForHeightStop ==
    /\ pc = "for"
    /\ idx = Len(event_elements)
    /\ IF NoNewContent(found_new_events)
       THEN /\ status' = "STOPPED_NO_NEW_CONTENT"
            /\ pc' = "return"
            /\ UNCHANGED page
       ELSE IF ~height_changed
       THEN /\ status' = "STOPPED_HEIGHT_UNCHANGED"
            /\ pc' = "return"
            /\ UNCHANGED page
       ELSE /\ page' = page + 1
            /\ pc' = "while"
            /\ UNCHANGED status
    /\ UNCHANGED <<max_pages, exhaustive, robots, events, processed_ids,
                   event_elements, idx, found_new_events, error_at, result,
                   raised, get_calls, scroll_calls, find_calls,
                   height_changed, same_snapshot, round_base, saved, history>>
    /\ UNCHANGED <<extractVars, retryVars>>

\* Lines 279-288: after the for loop.
AfterFor ==
    /\ pc = "for"
    /\ idx = Len(event_elements)
    /\ IF NoNewContent(found_new_events)
       THEN /\ status' = "STOPPED_NO_NEW_CONTENT"
            /\ pc' = "return"
            /\ UNCHANGED page
       ELSE /\ page' = page + 1
            /\ pc' = "while"
            /\ UNCHANGED status
    /\ UNCHANGED <<max_pages, exhaustive, robots, events, processed_ids,
                   event_elements, idx, found_new_events, error_at, result,
                   raised, get_calls, scroll_calls, find_calls,
                   height_changed, same_snapshot, round_base, saved, history>>
    /\ UNCHANGED <<extractVars, retryVars>>

\* Lines 296-299: the finally clause and `return events`.
Return ==
    /\ pc = "return"
    /\ result' = ReturnValue(events)
    /\ pc' = "done"
    /\ UNCHANGED <<max_pages, exhaustive, robots, events, processed_ids, page,
                   event_elements, idx, found_new_events, status, error_at,
                   raised, get_calls, scroll_calls, find_calls,
                   height_changed, same_snapshot, round_base, saved, history>>
    /\ UNCHANGED <<extractVars, retryVars>>

\* The list is handed to save_events while the call is still returning.
SaveEventsEarly ==
    /\ pc \in {"return", "done"}
    /\ ~raised
    /\ saved' = Append(saved, events)
    /\ pc' = IF pc = "return" THEN "done" ELSE "closed"
    /\ result' = IF pc = "return" THEN ReturnValue(events) ELSE result
    /\ UNCHANGED <<max_pages, exhaustive, robots, events, processed_ids, page,
                   event_elements, idx, found_new_events, status, error_at,
                   raised, get_calls, scroll_calls, find_calls,
                   height_changed, same_snapshot, round_base, history>>
    /\ UNCHANGED <<extractVars, retryVars>>

\* main, lines 343-345: the returned list goes to save_events.
SaveEvents ==
    /\ pc = "done"
    /\ ~raised
    /\ saved' = Append(saved, result)
    /\ pc' = "closed"
    /\ UNCHANGED <<max_pages, exhaustive, robots, events, processed_ids, page,
                   event_elements, idx, found_new_events, status, error_at,
                   result, raised, get_calls, scroll_calls, find_calls,
                   height_changed, same_snapshot, round_base, history>>
    /\ UNCHANGED <<extractVars, retryVars>>

\* A caller that keeps the scraper and calls scrape_events again: the
\* locals of lines 226-227 and 241 start afresh, the page stays loaded.
NewCall ==
    /\ pc = "done"
    /\ ~raised
    /\ Len(history) < MaxCalls - 1
    /\ history' = Append(history, [result |-> result, status |-> status])
    /\ pc' = "check_robots"
    /\ max_pages' \in 0..MaxPages
    /\ exhaustive' \in BOOLEAN
    /\ robots' = NoRobots
    /\ events' = <<>>
    /\ processed_ids' = {}
    /\ page' = 0
    /\ event_elements' = <<>>
    /\ idx' = 0
    /\ found_new_events' = FALSE
    /\ status' = "RUNNING"
    /\ error_at' = "none"
    /\ result' = <<>>
    /\ get_calls' = 0
    /\ scroll_calls' = 0
    /\ find_calls' = 0
    /\ height_changed' = FALSE
    /\ same_snapshot' = FALSE
    /\ round_base' = 0
    /\ UNCHANGED <<raised, saved>>
    /\ UNCHANGED <<extractVars, retryVars>>

Next ==
    \/ CheckRobots
    \/ GetOk
    \/ GetRaises
    \/ While
    \/ ScrollOk
    \/ ScrollRaises
    \/ FindOk
    \/ FindRaises
    \/ ForElement
    \/ AfterFor
    \/ Return
    \/ SaveEvents

\* One call of scrape_events from main.
Spec == Init /\ [][Next]_vars

NextCalls == Next \/ NewCall

\* Several calls of scrape_events on one scraper.
SpecCalls == Init /\ [][NextCalls]_vars

\* ------------------------------------------- extract_event_info on its own
\* Characters of an attendee text and tokens of a datetime attribute.
TextChars == {"1", "2", "a"}
DateTokens == {"iso", "iso_space", "junk", "Z", "[", "tz"}

\* Handles on which each lookup returns, finds nothing or raises otherwise.
OutcomeElements ==
    {[Good(id) EXCEPT !.stale = st, !.h3 = h, !.a = a, !.time = t,
                      !.has_datetime = d, !.group = g, !.rating = r,
                      !.attendees = at, !.img = im] :
        id \in {"e1", ""}, st \in BOOLEAN,
        h \in {"title", NoSuchElement}, a \in {"href", NoSuchElement},
        t \in {"ok", NoSuchElement}, d \in BOOLEAN,
        g \in {"ok", NoSuchElement, Stale},
        r \in {"ok", NoSuchElement, Stale},
        at \in {"ok", NoSuchElement, Stale},
        im \in {"ok", NoSuchElement, Stale}}

\* Handles that differ in the text of one field.
TextElements ==
    {[Good("e1") EXCEPT !.attendees_text = t] : t \in SeqsUpTo(TextChars, MaxText)}
    \cup {[Good("e1") EXCEPT !.datetime = d] : d \in SeqsUpTo(DateTokens, MaxDate)}
    \cup {[Good("e1") EXCEPT !.src = u] : u \in {"http", "", "relative"}}

ExtractInputs == OutcomeElements \cup TextElements

\* No scrape_events run is going on.
LoopIdle ==
    /\ max_pages = 0
    /\ exhaustive = FALSE
    /\ robots = NoRobots
    /\ events = <<>>
    /\ processed_ids = {}
    /\ page = 0
    /\ event_elements = <<>>
    /\ idx = 0
    /\ found_new_events = FALSE
    /\ status = "RUNNING"
    /\ error_at = "none"
    /\ result = <<>>
    /\ raised = FALSE
    /\ get_calls = 0
    /\ scroll_calls = 0
    /\ find_calls = 0
    /\ height_changed = FALSE
    /\ same_snapshot = FALSE
    /\ round_base = 0
    /\ saved = <<>>
    /\ history = <<>>

\* No call through safe_request is going on.
RetryIdle ==
    /\ plan = <<>>
    /\ attempt = 0
    /\ func_calls = 0
    /\ slept = <<>>
    /\ outcome = <<>>

InitExtract ==
    /\ pc = "extract"
    /\ element \in ExtractInputs
    /\ event_info = None
    /\ LoopIdle
    /\ RetryIdle

\* Lines 147-222: one call of extract_event_info on the handle.
ExtractEventInfo ==
    /\ pc = "extract"
    /\ event_info' = extract_event_info(element)
    /\ pc' = "extracted"
    /\ UNCHANGED <<element, loopVars, retryVars>>

\* extract_event_info applied to one handle.
SpecExtract == InitExtract /\ [][ExtractEventInfo]_vars

\* ------------------------------------------------------------------
\* safe_request (src/utils/helpers.py): the retry wrapper, applied to an
\* arbitrary func.  plan holds what func does on its successive calls.

\* What one call of func does: it returns a value or raises an exception
\* that except Exception catches.
FuncReturns == {"value_a", "value_b"}
FuncRaises == {"ConnectionError", "ValueError"}

\* The answers of func to max_retries + 1 successive calls.
Plans == [1..(max_retries + 1) -> FuncReturns \cup FuncRaises]

\* A wait of a constant-slope length.
BackoffLinear(a) == 2 * a + 1

\* time.sleep(2 ** attempt)
Backoff(a) == 2 ^ a

\* The test one attempt too late.
LastAttemptLate == attempt = max_retries

\* attempt == max_retries - 1
LastAttempt == attempt = max_retries - 1

InitRetry ==
    /\ pc = "wrapper"
    /\ plan \in Plans
    /\ attempt = 0
    /\ func_calls = 0
    /\ slept = <<>>
    /\ outcome = <<>>
    /\ element = Good("e1")
    /\ event_info = None
    /\ LoopIdle

\* return func(*args, **kwargs)
FuncReturnsValue ==
    /\ pc = "wrapper"
    /\ plan[func_calls + 1] \in FuncReturns
    /\ func_calls' = func_calls + 1
    /\ outcome' = <<"return", plan[func_calls + 1]>>
    /\ pc' = "wrapper_done"
    /\ UNCHANGED <<plan, attempt, slept, loopVars, extractVars>>

\* except Exception, on an attempt that is not the last: warn, sleep and
\* go to the next attempt.
FuncRaisesRetry ==
    /\ pc = "wrapper"
    /\ plan[func_calls + 1] \in FuncRaises
    /\ ~LastAttempt
    /\ func_calls' = func_calls + 1
    /\ slept' = Append(slept, Backoff(attempt))
    /\ attempt' = attempt + 1
    /\ UNCHANGED <<pc, plan, outcome, loopVars, extractVars>>

\* except Exception, on the last attempt: log and re-raise.
FuncRaisesLast ==
    /\ pc = "wrapper"
    /\ plan[func_calls + 1] \in FuncRaises
    /\ LastAttempt
    /\ func_calls' = func_calls + 1
    /\ outcome' = <<"raise", plan[func_calls + 1]>>
    /\ pc' = "wrapper_done"
    /\ UNCHANGED <<plan, attempt, slept, loopVars, extractVars>>

NextRetry == FuncReturnsValue \/ FuncRaisesRetry \/ FuncRaisesLast

SpecRetry == InitRetry /\ [][NextRetry]_vars

\* ------------------------------------------------------------------ claims
Ended == pc \in {"done", "closed"}

EventIds == {events[i].event_id : i \in 1..Len(events)}

\* C1: driver.get is invoked only after check_robots_txt returned True; when
\* it returned False, get, the scroll and find_elements are never invoked
\* and the call returns the empty list.
C1_GateBeforeNavigate ==
    /\ get_calls > 0 =>
         pc # "check_robots" /\ check_robots_txt(robots) = "True"
    /\ (pc # "check_robots" /\ check_robots_txt(robots) = "False") =>
         /\ get_calls = 0
         /\ scroll_calls = 0
         /\ find_calls = 0
         /\ events = <<>>
         /\ Ended
         /\ result = <<>>

C1_Witness ==
    /\ pc = "done"
    /\ robots.read = "ok"
    /\ robots.can_fetch = "False"
    /\ status = "DENIED"

\* A retrieval failure: one of the robots.txt calls raised.
RetrievalFailed(r) ==
    \/ r.read = "raise"
    \/ r.can_fetch = "raise"
    \/ r.can_fetch = "True" /\ r.crawl_delay = "raise"

C3_LedgerMatchesCollected ==
    /\ processed_ids = EventIds
    /\ \A i, j \in 1..Len(events) :
         events[i].event_id = events[j].event_id => i = j

\* A round whose snapshot repeats one extractable identity has run.
C3_Witness ==
    /\ pc = "for"
    /\ idx = 2
    /\ event_elements[1] = Good("e1")
    /\ event_elements[2] = Good("e1")
    /\ Len(events) = round_base + 1

\* C4: the loop stops on budget exactly when it is not exhaustive and page
\* has reached max_pages at the head of the loop: the body of a round runs
\* only with budget left, a run stopped on budget has scrolled exactly
\* max_pages times, and an exhaustive run never stops on budget.
C4_BudgetRespected ==
    /\ status = "STOPPED_BUDGET" =>
         /\ ~exhaustive
         /\ page = max_pages
         /\ scroll_calls = max_pages
         /\ find_calls = max_pages
         /\ Len(events) >= max_pages
    /\ pc \in {"scroll", "find_elements", "for"} =>
         exhaustive \/ page < max_pages
    /\ status \in {"STOPPED_NO_NEW_CONTENT", "STOPPED_HEIGHT_UNCHANGED"} =>
         exhaustive \/ page < max_pages
    /\ (Ended /\ ~exhaustive /\ error_at = "none"
          /\ status \notin {"DENIED", "STOPPED_NO_NEW_CONTENT"}) =>
         status = "STOPPED_BUDGET" /\ scroll_calls = max_pages

C4_Witness ==
    /\ pc = "done"
    /\ status = "STOPPED_BUDGET"
    /\ max_pages = MaxPages
    /\ scroll_calls = MaxPages

\* C5: a round that appends no record ends the run in
\* STOPPED_NO_NEW_CONTENT with events as it was when the round started,
\* whatever the scroll height did; the loop goes on only after a round that
\* appended something; a round that sees the snapshot of the round before
\* appends nothing.
C5_NoNewContentStops ==
    /\ status = "STOPPED_NO_NEW_CONTENT" =>
         /\ Len(events) = round_base
         /\ ~found_new_events
         /\ pc \in {"return", "done", "closed"}
         /\ scroll_calls = page + 1
    /\ (pc = "while" /\ find_calls >= 1) =>
         found_new_events /\ Len(events) > round_base
    /\ (pc \in {"scroll", "find_elements"} /\ find_calls >= 1) =>
         found_new_events
    /\ (pc = "for" /\ same_snapshot) =>
         ~found_new_events /\ Len(events) = round_base

\* The second of two rounds with the same non-empty snapshot ended the run,
\* although the scroll height had changed.
C5_Witness ==
    /\ pc = "done"
    /\ status = "STOPPED_NO_NEW_CONTENT"
    /\ same_snapshot
    /\ height_changed
    /\ Len(event_elements) = 2
    /\ Len(events) >= 1

\* A round has run to its end, appended a record, and the scroll it began
\* with left the scroll height as it was.
ProductiveRoundHeightUnchanged ==
    /\ pc \in {"while", "scroll", "return", "done", "closed"}
    /\ find_calls >= 1
    /\ error_at = "none"
    /\ found_new_events
    /\ ~height_changed

\* C6 as stated: after a round that produced a new record, an unchanged
\* scroll height moves the run to STOPPED_HEIGHT_UNCHANGED.
C6_HeightUnchangedStops ==
    ProductiveRoundHeightUnchanged => status = "STOPPED_HEIGHT_UNCHANGED"

\* C6 as amended: the scroll height is never read.  No run ends in
\* STOPPED_HEIGHT_UNCHANGED; after a round that produced a new record the
\* counter page is incremented and the run goes on, and it then stops only
\* on budget, whether or not the scroll height changed.
C6_HeightNeverStops ==
    /\ status # "STOPPED_HEIGHT_UNCHANGED"
    /\ (pc = "while" /\ find_calls >= 1) =>
         status = "RUNNING" /\ page = find_calls /\ found_new_events
    /\ (pc \in {"return", "done", "closed"} /\ find_calls >= 1
          /\ error_at = "none" /\ found_new_events) =>
         status = "STOPPED_BUDGET"

\* The run scrolls again after a productive round at unchanged height.
C6_Witness ==
    /\ pc = "find_elements"
    /\ scroll_calls = 2
    /\ found_new_events
    /\ ~height_changed
    /\ status = "RUNNING"

\* Attempts made at the driver call that ended the run.
FailedCallAttempts ==
    IF error_at = "scroll" THEN scroll_calls - page
    ELSE IF error_at = "find_elements" THEN find_calls - page
    ELSE get_calls

\* C7: the run enters STOPPED_ERROR because of a scroll or find_elements
\* failure only after that call has failed on max_retries attempts.
C7_ErrorOnlyAfterRetries ==
    (status = "STOPPED_ERROR" /\ error_at \in {"scroll", "find_elements"}) =>
        FailedCallAttempts = max_retries

\* C8: scrape_events never raises; when driver.get, a scroll or a
\* find_elements call fails the run ends, events is left as it was before the
\* failure (empty if it was driver.get), and exactly events is returned.
C8_PartialResultReturned ==
    /\ [](~raised)
    /\ [](Ended => result = events)
    /\ [](error_at # "none" =>
            /\ status = "STOPPED_ERROR"
            /\ pc \in {"return", "done", "closed"}
            /\ Len(events) = round_base)
    /\ [](error_at = "get" => events = <<>>)
    /\ [][status' = "STOPPED_ERROR" => events' = events]_vars

\* A scroll failed in a later round and the records of the earlier rounds
\* were returned.
C8_Witness ==
    /\ pc = "done"
    /\ status = "STOPPED_ERROR"
    /\ error_at = "scroll"
    /\ Len(result) >= 1
    /\ result = events

LoopExits == {"STOPPED_BUDGET", "STOPPED_NO_NEW_CONTENT", "STOPPED_ERROR"}

\* C9: what scrape_events returns tells which exit ended the run: two calls
\* that return the same list ended in the same terminal state.
C9_ResultTellsTerminalState ==
    (/\ pc = "done"
     /\ Len(history) >= 1
     /\ status \in LoopExits
     /\ history[1].status \in LoopExits
     /\ history[1].result = result) =>
        history[1].status = status

\* An element handle without an identity, a title or a target URL.
LacksRequired(el) ==
    \/ el.id = ""
    \/ el.h3 \in {NoSuchElement, Stale}
    \/ el.a \in {NoSuchElement, Stale}

\* C10: an element that lacks an identity, a title or a URL never appears
\* in events and its identity never enters processed_ids: no record of
\* events has an empty identity or is the extraction of such an element of
\* the snapshot.
C10_RequiredFieldRejection ==
    /\ \A i \in 1..Len(events) : events[i].event_id # ""
    /\ "" \notin processed_ids
    /\ \A k \in 1..Len(event_elements) :
         LacksRequired(event_elements[k]) =>
           \A i \in 1..Len(events) :
             Some(events[i]) # extract_event_info(event_elements[k])

\* s is an initial segment of t.
IsPrefix(s, t) == Len(s) <= Len(t) /\ SubSeq(t, 1, Len(s)) = s

\* C13: events is append-only within a run: at every step the old value is
\* a prefix of the new one.
C13_AppendOnly == [][IsPrefix(events, events')]_vars

\* events has grown in two different rounds.
C13_Witness ==
    /\ pc = "for"
    /\ round_base >= 1
    /\ Len(events) > round_base

RECURSIVE RoundRecords(_, _)
\* The records a walk over snapshot snap in its order yields when the
\* identities in seen are already collected: the reference for one round.
RoundRecords(snap, seen) ==
    IF Len(snap) = 0 THEN <<>>
    ELSE LET el == snap[1]
             info == extract_event_info(el)
         IN IF ~el.stale /\ el.id \notin seen /\ info # None
            THEN <<info[1]>> \o RoundRecords(Tail(snap), seen \cup {el.id})
            ELSE RoundRecords(Tail(snap), seen)

\* Identities of the records collected before the current round.
SeenBeforeRound == {events[i].event_id : i \in 1..round_base}

\* C14: records are in discovery order: those of earlier rounds come first
\* and those of the current round follow in the order of their elements in
\* the snapshot.
C14_DiscoveryOrder ==
    /\ [](pc = "for" =>
            /\ round_base <= Len(events)
            /\ SubSeq(events, round_base + 1, Len(events))
                 = RoundRecords(SubSeq(event_elements, 1, idx),
                                SeenBeforeRound))
    /\ [][/\ IsPrefix(events, events')
          /\ Len(events') > Len(events) => Len(events) >= round_base]_vars

\* A later round has appended the records of two elements of its snapshot.
C14_Witness ==
    /\ pc = "for"
    /\ idx = 2
    /\ round_base >= 1
    /\ Len(events) = round_base + 2

\* C15: save_events receives the collected list exactly once, and only
\* after scrape_events has ended its run and returned, also when the run
\* ended on an error.
C15_SavedOnceAfterTerminal ==
    /\ Len(saved) <= 1
    /\ Len(saved) = 1 =>
         /\ pc = "closed"
         /\ status # "RUNNING"
         /\ saved[1] = events
         /\ saved[1] = result
    /\ pc = "closed" => Len(saved) = 1

\* A run that ended on an error after collecting something was saved.
C15_Witness ==
    /\ pc = "closed"
    /\ status = "STOPPED_ERROR"
    /\ Len(saved) = 1
    /\ Len(saved[1]) >= 1

\* Reading the element raises or its extraction yields None.
ElementFails(el) == el.stale \/ extract_event_info(el) = None

\* C16: an element that cannot be read or extracted leaves events and
\* processed_ids as they were and does not end the round: the for loop
\* moves on to the next element, and it is left only at the end of the
\* snapshot.
C16_ElementFailureAbsorbed ==
    /\ [](pc # "for" => idx = Len(event_elements))
    /\ [][(pc = "for" /\ idx < Len(event_elements)
             /\ ElementFails(event_elements[idx + 1])) =>
            /\ events' = events
            /\ processed_ids' = processed_ids
            /\ pc' = "for"
            /\ idx' = idx + 1
            /\ status' = "RUNNING"]_vars

\* A stale element was skipped and the element after it was collected.
C16_Witness ==
    /\ pc = "for"
    /\ idx = 2
    /\ event_elements[1].stale
    /\ Len(events) = round_base + 1
    /\ events[Len(events)].event_id = event_elements[2].id

\* Identities the modelled feed can expose.
ExposedIds == {el.id : el \in Elements}

\* Steps one round takes at most, and a bound on the steps left: the
\* rounds still possible times RoundSpan plus the steps left in the round.
RoundSpan == MaxSnap + 5

StepsLeft ==
    LET k == Cardinality(ExposedIds)
        rounds == k + 1 - page
    IN CASE pc = "check_robots" -> (k + 2) * RoundSpan + 2
         [] pc = "get" -> (k + 2) * RoundSpan + 1
         [] pc = "while" -> rounds * RoundSpan + MaxSnap + 4
         [] pc = "scroll" -> rounds * RoundSpan + MaxSnap + 3
         [] pc = "find_elements" -> rounds * RoundSpan + MaxSnap + 2
         [] pc = "for" -> rounds * RoundSpan + Len(event_elements) - idx + 1
         [] pc = "return" -> 2
         [] pc = "done" -> 1
         [] OTHER -> 0

\* C19: scrape_events always terminates.  As long as main has not finished
\* a step is possible (each browser call returns or raises), every step
\* lowers StepsLeft, and StepsLeft never goes below 0, so no run goes on for
\* ever.  A run that is not exhaustive scrolls at most max_pages times; every
\* run scrolls at most once more than the number of identities it has
\* collected, which are among the k identities the feed exposes, also when
\* elements are rejected in every round.
C19_Terminates ==
    /\ [](pc = "closed" \/ ENABLED Next)
    /\ [](StepsLeft >= 0)
    /\ [][StepsLeft' < StepsLeft]_vars
    /\ [](~exhaustive => scroll_calls <= max_pages)
    /\ [](scroll_calls <= Cardinality(processed_ids) + 1)
    /\ [](processed_ids \subseteq ExposedIds)

\* An exhaustive run has ended after k + 1 rounds, the last of which saw
\* only an element that is rejected every time.
C19_Witness ==
    /\ pc = "done"
    /\ exhaustive
    /\ scroll_calls = Cardinality(ExposedIds) + 1
    /\ Len(event_elements) = 1
    /\ event_elements[1].h3 = NoSuchElement
    /\ status = "STOPPED_NO_NEW_CONTENT"

\* The identity, the title and the link of the handle resolve.
RequiredResolve(el) ==
    ~el.stale /\ el.h3 # NoSuchElement /\ el.a # NoSuchElement

\* No optional lookup on the handle finds its element.
OptionalUnresolvable(el) ==
    /\ el.time = NoSuchElement
    /\ el.group = NoSuchElement
    /\ el.rating = NoSuchElement
    /\ el.attendees = NoSuchElement
    /\ el.img = NoSuchElement

\* C11: an element whose identity, title and URL resolve but whose optional
\* fields are all unresolvable still yields a record, with the group and
\* image sentinels and 0 attendees.
C11_OptionalFieldsDefault ==
    (pc = "extracted" /\ RequiredResolve(element)
       /\ OptionalUnresolvable(element)) =>
        /\ event_info # None
        /\ event_info[1].group_name = <<GroupDefault>>
        /\ event_info[1].image_url = ImageDefault
        /\ event_info[1].attendees = 0

RECURSIVE DigitRun(_)
\* The longest prefix of s made of digits.
DigitRun(s) ==
    IF Len(s) = 0 \/ ~IsDigit(s[1]) THEN <<>>
    ELSE <<s[1]>> \o DigitRun(Tail(s))

RECURSIVE FirstDigitRun(_)
\* The first maximal run of consecutive digits of s, <<>> if s has no digit.
FirstDigitRun(s) ==
    IF Len(s) = 0 THEN <<>>
    ELSE IF IsDigit(s[1]) THEN DigitRun(s)
    ELSE FirstDigitRun(Tail(s))

\* C17: the attendee count is the value of the first maximal run of digits
\* of the attendee text, and 0 when the text has no digit.
C17_AttendeesFirstDigitRun ==
    (pc = "extracted" /\ event_info # None /\ element.attendees = "ok") =>
        event_info[1].attendees = IntOf(FirstDigitRun(element.attendees_text))

\* The date of the handle cannot be normalized to a timestamp: the time
\* element is there but its datetime attribute is absent or does not parse.
DateNotNormalizable(el) ==
    /\ el.time = "ok"
    /\ \/ ~el.has_datetime
       \/ ~IsIsoFormat(ReplaceZ(SplitBracket(el.datetime)))

\* Every other lookup on the handle returns or finds nothing.
OthersAnswer(el) ==
    /\ RequiredResolve(el)
    /\ el.group # Stale
    /\ el.rating # Stale
    /\ el.attendees # Stale

\* C18: when the date cannot be normalized, extraction still yields a
\* record; it keeps the text of the time element for display and its date
\* is not a parsed timestamp.
C18_DateFailureDegrades ==
    (pc = "extracted" /\ OthersAnswer(element)
       /\ DateNotNormalizable(element)) =>
        /\ event_info # None
        /\ event_info[1].date_display = element.time_text
        /\ ~IsIsoFormat(event_info[1].date)

\* The calls of func made so far that raised.
FailedCalls == {i \in 1..func_calls : plan[i] \in FuncRaises}

\* C12: safe_request calls func at most max_retries = 3 times; it stops
\* at the first call that returns and returns that call's value; a call
\* that raises is retried whatever the exception; when all 3 calls raise
\* it raises the exception of the third call and returns nothing.
C12_RetryContract ==
    /\ func_calls <= max_retries
    /\ \A i \in 1..func_calls : i < func_calls => plan[i] \in FuncRaises
    /\ (pc = "wrapper") <=> (outcome = <<>>)
    /\ pc = "wrapper" =>
         /\ func_calls < max_retries
         /\ FailedCalls = 1..func_calls
    /\ pc = "wrapper_done" =>
         /\ func_calls >= 1
         /\ plan[func_calls] \in FuncReturns =>
              outcome = <<"return", plan[func_calls]>>
         /\ plan[func_calls] \in FuncRaises =>
              /\ func_calls = max_retries
              /\ outcome = <<"raise", plan[max_retries]>>

\* Three calls raised, with two kinds of exception, and the third one's
\* exception was raised to the caller.
C12_Witness ==
    /\ pc = "wrapper_done"
    /\ func_calls = 3
    /\ plan[1] = "ValueError"
    /\ plan[2] = "ConnectionError"
    /\ plan[3] = "ValueError"
    /\ outcome = <<"raise", "ValueError">>

\* C20: the wait before attempt k + 1 is 2^(k-1), so the waits are 1 then
\* 2, each twice the one before and none above 2^(max_retries - 2); there
\* is one wait for each failed attempt that another attempt follows, and
\* none after an attempt that succeeded or after the last failed attempt.
C20_BackoffSchedule ==
    /\ \A k \in 1..Len(slept) : slept[k] = 2 ^ (k - 1)
    /\ \A k \in 1..Len(slept) : slept[k] <= 2 ^ (max_retries - 2)
    /\ \A k \in 2..Len(slept) : slept[k] = 2 * slept[k - 1]
    /\ Len(slept) <= max_retries - 1
    /\ Len(slept) = attempt
    /\ pc = "wrapper" => Len(slept) = func_calls
    /\ pc = "wrapper_done" => Len(slept) = func_calls - 1

\* The wrapper waited 1 then 2 and returned the value of the third call.
C20_Witness ==
    /\ pc = "wrapper_done"
    /\ slept = <<1, 2>>
    /\ func_calls = 3
    /\ outcome = <<"return", "value_b">>

====
